---- MODULE Spec2Model ----
(***************************************************************************)
(* near-sdk store::LookupMap<u8, u8, H>: a lazily loaded, write-deferred   *)
(* cache over the storage host.  One map instance over one prefix, its     *)
(* cache, and the storage host's trie.                                     *)
(***************************************************************************)
EXTENDS Integers, Sequences, FiniteSets, TLC

\* ------------------------------------------------------------------ bounds
NumKeys == 2
MaxVal == 2
\* the occurrences of one key the counter of entry's example is run to
MaxCount == 3

Keys == 1..NumKeys
Vals == 1..MaxVal

\* ------------------------------------------------------------- Option<T>
None == <<>>
Some(v) == <<v>>
is_some(o) == o # <<>>
OptVals == {None} \cup {Some(v) : v \in Vals}

\* ------------------------------------------------------- error messages
ERR_ELEMENT_DESERIALIZATION == "Cannot deserialize element"
NoPanic == ""

\* map prefix: b"m"
Prefix == <<109>>

\* --------------------------------------------------- collaborators: borsh
\* u8 is encoded as the one byte holding it; decoding wants exactly one byte.
BorshSerialize(v) == <<v>>
try_from_slice(bytes) == IF Len(bytes) = 1 THEN Some(bytes[1]) ELSE None

\* ---------------------------------------------------- collaborator: hash
\* CryptoHasher::hash, taken as injective on byte strings.
H_hash(buffer) == [digest |-> buffer]

\* ------------------------------------------------- collaborator: storage
storage_read(st, d) == IF d \in DOMAIN st THEN Some(st[d]) ELSE None
storage_has_key(st, d) == d \in DOMAIN st
storage_write(st, d, bytes) ==
    [x \in (DOMAIN st) \cup {d} |-> IF x = d THEN bytes ELSE st[x]]
storage_remove(st, d) == [x \in (DOMAIN st) \ {d} |-> st[x]]

\* one logged call of the storage host
Call(name, d) == [call |-> name, key |-> d]

\* ------------------------------------------------------------ CacheEntry
CACHED == "Cached"
MODIFIED == "Modified"
new_cached(value) == [value |-> value, state |-> CACHED]
new_modified(value) == [value |-> value, state |-> MODIFIED]
\* value_mut hands out a mutable alias: the entry is marked Modified.
value_mut(e) == [e EXCEPT !.state = MODIFIED]
\* replace(new) -> old: overwrites the value, marks Modified.
replace(e, value) == [entry |-> [value |-> value, state |-> MODIFIED], old |-> e.value]
is_modified(e) == e.state = MODIFIED
replace_state(e, s) == [e EXCEPT !.state = s]

\* ------------------------------------------- StableMap<K, OnceCell<..>>
\* A cache is a function from the keys that have a slot to the slot's cell:
\* <<>> (uninitialized) or <<entry>>.
EmptyCache == [k \in {} |-> <<>>]
\* StableMap::get / get_mut: the slot of k, created empty when missing.
slot(c, k) == IF k \in DOMAIN c THEN c ELSE [x \in (DOMAIN c) \cup {k} |-> IF x = k THEN <<>> ELSE c[x]]
\* StableMap::with_value: f applied to the cell, None without a slot.
with_value_is_some(c, k) ==
    IF k \in DOMAIN c
    THEN Some(c[k] # <<>> /\ is_some(c[k][1].value))
    ELSE None
unwrap_or(o, d) == IF o = None THEN d ELSE o[1]

\* --------------------------------------------------------------- LookupMap
new_with_hasher(prefix) == EmptyCache

\* a key derivation that leaves the map's prefix out
lookup_key_without_prefix(prefix, key) == H_hash(BorshSerialize(key))

lookup_key(prefix, key) == H_hash(prefix \o BorshSerialize(key))

\* lookup_key of a map whose key type is (u8, u8): borsh encodes a tuple as its
\* fields' encodings, in order
BorshSerializePair(key) == BorshSerialize(key[1]) \o BorshSerialize(key[2])
lookup_key_pair(prefix, key) == H_hash(prefix \o BorshSerializePair(key))

\* a deserialize_element that takes undecodable bytes for no value
deserialize_element_or_none(bytes) == [panic |-> NoPanic, value |-> try_from_slice(bytes)]

\* deserialize_element: the value, or the abort.
deserialize_element(bytes) ==
    LET r == try_from_slice(bytes)
    IN  IF r = None THEN [panic |-> ERR_ELEMENT_DESERIALIZATION, value |-> None]
        ELSE [panic |-> NoPanic, value |-> r]

load_element(st, prefix, key) ==
    LET storage_bytes == storage_read(st, lookup_key(prefix, key))
    IN  IF storage_bytes = None
        THEN [panic |-> NoPanic, value |-> None]
        ELSE deserialize_element(storage_bytes[1])

\* The result of one map operation.
Res(c, st, ret, io, panic) ==
    [cache |-> c, storage |-> st, ret |-> ret, io |-> io, panic |-> panic]

\* a set that writes through to the storage host
set_write_through(c, st, key, value) ==
    LET c1 == slot(c, key)
        d == lookup_key(Prefix, key)
    IN  IF is_some(value)
        THEN Res([c1 EXCEPT ![key] = <<new_cached(value)>>],
                 storage_write(st, d, BorshSerialize(value[1])), None,
                 <<Call("storage_write", d)>>, NoPanic)
        ELSE Res([c1 EXCEPT ![key] = <<new_cached(value)>>],
                 storage_remove(st, d), None, <<Call("storage_remove", d)>>, NoPanic)

\* a set that overwrites an initialized slot's value and leaves its state alone
set_unmarked(c, st, key, value) ==
    LET c1 == slot(c, key)
        cell == c1[key]
    IN  IF cell # <<>>
        THEN Res([c1 EXCEPT ![key] = <<[cell[1] EXCEPT !.value = value]>>],
                 st, None, <<>>, NoPanic)
        ELSE Res([c1 EXCEPT ![key] = <<new_modified(value)>>], st, None, <<>>, NoPanic)

set(c, st, key, value) ==
    LET c1 == slot(c, key)
        cell == c1[key]
    IN  IF cell # <<>>
        THEN Res([c1 EXCEPT ![key] = <<[value_mut(cell[1]) EXCEPT !.value = value]>>],
                 st, None, <<>>, NoPanic)
        ELSE Res([c1 EXCEPT ![key] = <<new_modified(value)>>], st, None, <<>>, NoPanic)

\* a lookup that loads from the storage host whenever the slot is not dirty
get_or_init_reloads(c, st, prefix, k) ==
    LET c1 == slot(c, k)
    IN  IF c1[k] # <<>> /\ is_modified(c1[k][1])
        THEN Res(c1, st, None, <<>>, NoPanic)
        ELSE LET l == load_element(st, prefix, k)
                 io == <<Call("storage_read", lookup_key(prefix, k))>>
             IN  IF l.panic # NoPanic
                 THEN Res(c1, st, None, io, l.panic)
                 ELSE Res([c1 EXCEPT ![k] = <<new_cached(l.value)>>], st, None, io, NoPanic)

\* cell.get_or_init(|| CacheEntry::new_cached(Self::load_element(prefix, k)))
get_or_init(c, st, prefix, k) ==
    LET c1 == slot(c, k)
    IN  IF c1[k] # <<>>
        THEN Res(c1, st, None, <<>>, NoPanic)
        ELSE LET l == load_element(st, prefix, k)
                 io == <<Call("storage_read", lookup_key(prefix, k))>>
             IN  IF l.panic # NoPanic
                 THEN Res(c1, st, None, io, l.panic)
                 ELSE Res([c1 EXCEPT ![k] = <<new_cached(l.value)>>], st, None, io, NoPanic)

\* a get that answers from the storage host, whatever the cache holds
get_bypasses_cache(c, st, prefix, k) ==
    LET r == get_or_init(c, st, prefix, k)
    IN  IF r.panic # NoPanic THEN r
        ELSE [r EXCEPT !.ret = load_element(st, prefix, k).value]

get(c, st, prefix, k) ==
    LET r == get_or_init(c, st, prefix, k)
    IN  IF r.panic # NoPanic THEN r
        ELSE [r EXCEPT !.ret = r.cache[k][1].value]

get_mut_inner(c, st, prefix, k) == get_or_init(c, st, prefix, k)

\* a get_mut that marks the slot only when the caller stores through the alias
get_mut_marks_on_write(c, st, prefix, k, w) ==
    LET r == get_mut_inner(c, st, prefix, k)
    IN  IF r.panic # NoPanic THEN r
        ELSE LET e == r.cache[k][1]
                 e2 == IF is_some(e.value) /\ is_some(w) THEN [value_mut(e) EXCEPT !.value = w] ELSE e
             IN  [r EXCEPT !.cache = [r.cache EXCEPT ![k] = <<e2>>], !.ret = e.value]

\* get_mut: the mutable alias is issued through value_mut; w is what the caller
\* then stores through it (None: the caller leaves the value alone).
get_mut(c, st, prefix, k, w) ==
    LET r == get_mut_inner(c, st, prefix, k)
    IN  IF r.panic # NoPanic THEN r
        ELSE LET e == value_mut(r.cache[k][1])
                 e2 == IF is_some(e.value) /\ is_some(w) THEN [e EXCEPT !.value = w] ELSE e
             IN  [r EXCEPT !.cache = [r.cache EXCEPT ![k] = <<e2>>], !.ret = e.value]

\* an insert that hands back the value it stores
insert_returns_new(c, st, prefix, k, v) ==
    LET r == get_mut_inner(c, st, prefix, k)
    IN  IF r.panic # NoPanic THEN r
        ELSE LET x == replace(r.cache[k][1], Some(v))
             IN  [r EXCEPT !.cache = [r.cache EXCEPT ![k] = <<x.entry>>], !.ret = Some(v)]

insert(c, st, prefix, k, v) ==
    LET r == get_mut_inner(c, st, prefix, k)
    IN  IF r.panic # NoPanic THEN r
        ELSE LET x == replace(r.cache[k][1], Some(v))
             IN  [r EXCEPT !.cache = [r.cache EXCEPT ![k] = <<x.entry>>], !.ret = x.old]

\* a contains_key that caches None whatever the storage host answers
contains_key_caches_none(c, st, prefix, k) ==
    IF unwrap_or(with_value_is_some(c, k), FALSE)
    THEN Res(c, st, TRUE, <<>>, NoPanic)
    ELSE LET storage_key == lookup_key(prefix, k)
             contains == storage_has_key(st, storage_key)
             io == <<Call("storage_has_key", storage_key)>>
             c1 == slot(c, k)
             c2 == IF c1[k] = <<>> THEN [c1 EXCEPT ![k] = <<new_cached(None)>>] ELSE c1
         IN  Res(c2, st, contains, io, NoPanic)

contains_key(c, st, prefix, k) ==
    IF unwrap_or(with_value_is_some(c, k), FALSE)
    THEN Res(c, st, TRUE, <<>>, NoPanic)
    ELSE LET storage_key == lookup_key(prefix, k)
             contains == storage_has_key(st, storage_key)
             io == <<Call("storage_has_key", storage_key)>>
         IN  IF ~contains
             THEN LET c1 == slot(c, k)
                      \* OnceCell::set keeps an initialized cell as it is
                      c2 == IF c1[k] = <<>> THEN [c1 EXCEPT ![k] = <<new_cached(None)>>] ELSE c1
                  IN  Res(c2, st, contains, io, NoPanic)
             ELSE Res(c, st, contains, io, NoPanic)

\* a remove that drops the slot's value without marking the slot
remove_unmarked(c, st, prefix, k) ==
    LET r == get_mut_inner(c, st, prefix, k)
    IN  IF r.panic # NoPanic THEN r
        ELSE LET e == r.cache[k][1]
             IN  [r EXCEPT !.cache = [r.cache EXCEPT ![k] = <<[e EXCEPT !.value = None]>>],
                           !.ret = e.value]

remove(c, st, prefix, k) ==
    LET r == get_mut_inner(c, st, prefix, k)
    IN  IF r.panic # NoPanic THEN r
        ELSE LET x == replace(r.cache[k][1], None)
             IN  [r EXCEPT !.cache = [r.cache EXCEPT ![k] = <<x.entry>>], !.ret = x.old]

\* an entry that reports Vacant whatever the slot holds
entry_always_vacant(c, st, prefix, key) ==
    LET r == get_mut_inner(c, st, prefix, key)
    IN  IF r.panic # NoPanic THEN r ELSE [r EXCEPT !.ret = "Vacant"]

\* an entry that takes the slot's value through value_mut
entry_marks_modified(c, st, prefix, key) ==
    LET r == get_mut_inner(c, st, prefix, key)
    IN  IF r.panic # NoPanic THEN r
        ELSE LET e == value_mut(r.cache[key][1])
                 c1 == [r.cache EXCEPT ![key] = <<e>>]
             IN  IF is_some(e.value)
                 THEN [r EXCEPT !.cache = c1, !.ret = "Occupied"]
                 ELSE [r EXCEPT !.cache = c1, !.ret = "Vacant"]

entry(c, st, prefix, key) ==
    LET r == get_mut_inner(c, st, prefix, key)
    IN  IF r.panic # NoPanic THEN r
        ELSE IF is_some(r.cache[key][1].value)
             THEN [r EXCEPT !.ret = "Occupied"]
             ELSE [r EXCEPT !.ret = "Vacant"]

\* Entry::or_insert(default): VacantEntry::insert(default) on a Vacant entry,
\* OccupiedEntry::into_mut on an Occupied one; both hand out the value through
\* value_mut.  ret is the value the returned reference points to.
or_insert(c, st, prefix, key, default) ==
    LET r == entry(c, st, prefix, key)
    IN  IF r.panic # NoPanic THEN r
        ELSE LET e == value_mut(r.cache[key][1])
             IN  IF r.ret = "Vacant"
                 THEN [r EXCEPT !.cache = [r.cache EXCEPT ![key] = <<[e EXCEPT !.value = Some(default)]>>],
                                !.ret = default]
                 ELSE [r EXCEPT !.cache = [r.cache EXCEPT ![key] = <<e>>],
                                !.ret = e.value[1]]

\* the body of the loop of entry's example:
\*   let counter = count.entry(ch).or_insert(0); *counter += 1;
count_entry(c, st, prefix, ch) ==
    LET r == or_insert(c, st, prefix, ch, 0)
    IN  IF r.panic # NoPanic THEN r
        ELSE [r EXCEPT !.cache = [r.cache EXCEPT ![ch] =
                                    <<[r.cache[ch][1] EXCEPT !.value = Some(r.ret + 1)]>>],
                       !.ret = None]

\* the loop of entry's example over the elements of chs
RECURSIVE count_loop(_, _, _, _)
count_loop(c, st, prefix, chs) ==
    IF chs = <<>> THEN Res(c, st, None, <<>>, NoPanic)
    ELSE LET r == count_entry(c, st, prefix, chs[1])
         IN  count_loop(r.cache, r.storage, prefix, Tail(chs))

\* a flush that persists nothing and only demotes the slot
flush_slot_no_write(r, prefix, k) ==
    LET cell == r.cache[k]
    IN  IF cell # <<>> /\ is_modified(cell[1])
        THEN [r EXCEPT !.cache = [r.cache EXCEPT ![k] = <<replace_state(cell[1], CACHED)>>]]
        ELSE r

\* a flush that persists the slot and leaves it Modified
flush_slot_stays_modified(r, prefix, k) ==
    LET cell == r.cache[k]
    IN  IF cell # <<>> /\ is_modified(cell[1])
        THEN LET key == lookup_key(prefix, k)
                 v == cell[1]
             IN  IF is_some(v.value)
                 THEN Res(r.cache, storage_write(r.storage, key, BorshSerialize(v.value[1])),
                          None, Append(r.io, Call("storage_write", key)), NoPanic)
                 ELSE Res(r.cache, storage_remove(r.storage, key),
                          None, Append(r.io, Call("storage_remove", key)), NoPanic)
        ELSE r

\* a flush that persists every initialized slot, dirty or not
flush_slot_any_state(r, prefix, k) ==
    LET cell == r.cache[k]
    IN  IF cell # <<>>
        THEN LET key == lookup_key(prefix, k)
                 v == cell[1]
                 done == [r.cache EXCEPT ![k] = <<replace_state(v, CACHED)>>]
             IN  IF is_some(v.value)
                 THEN Res(done, storage_write(r.storage, key, BorshSerialize(v.value[1])),
                          None, Append(r.io, Call("storage_write", key)), NoPanic)
                 ELSE Res(done, storage_remove(r.storage, key),
                          None, Append(r.io, Call("storage_remove", key)), NoPanic)
        ELSE r

\* a flush that persists the slot and evicts it from the cache
flush_slot_evicts(r, prefix, k) ==
    LET cell == r.cache[k]
    IN  IF cell # <<>> /\ is_modified(cell[1])
        THEN LET key == lookup_key(prefix, k)
                 v == cell[1]
                 done == [r.cache EXCEPT ![k] = <<>>]
             IN  IF is_some(v.value)
                 THEN Res(done, storage_write(r.storage, key, BorshSerialize(v.value[1])),
                          None, Append(r.io, Call("storage_write", key)), NoPanic)
                 ELSE Res(done, storage_remove(r.storage, key),
                          None, Append(r.io, Call("storage_remove", key)), NoPanic)
        ELSE r

\* flush of one slot: the body of flush's loop
flush_slot(r, prefix, k) ==
    LET cell == r.cache[k]
    IN  IF cell # <<>> /\ is_modified(cell[1])
        THEN LET key == lookup_key(prefix, k)
                 v == cell[1]
                 done == [r.cache EXCEPT ![k] = <<replace_state(v, CACHED)>>]
             IN  IF is_some(v.value)
                 THEN Res(done, storage_write(r.storage, key, BorshSerialize(v.value[1])),
                          None, Append(r.io, Call("storage_write", key)), NoPanic)
                 ELSE Res(done, storage_remove(r.storage, key),
                          None, Append(r.io, Call("storage_remove", key)), NoPanic)
        ELSE r

\* the loop of flush over cache.inner().iter_mut(), in key order
RECURSIVE flush_loop(_, _, _)
flush_loop(r, prefix, todo) ==
    IF todo = {} THEN r
    ELSE LET k == CHOOSE x \in todo : \A y \in todo : x <= y
         IN  flush_loop(flush_slot(r, prefix, k), prefix, todo \ {k})

\* a flush that leaves the pending values where they are
flush_keeps_pending(c, st, prefix) == Res(c, st, None, <<>>, NoPanic)

flush(c, st, prefix) == flush_loop(Res(c, st, None, <<>>, NoPanic), prefix, DOMAIN c)

\* impl Drop for LookupMap: the map is flushed when it goes out of scope.
drop(c, st, prefix) == flush(c, st, prefix)

\* Extend::extend: every pair of the iterator is set, in order.
RECURSIVE extend(_, _, _)
extend(c, st, pairs) ==
    IF pairs = <<>> THEN Res(c, st, None, <<>>, NoPanic)
    ELSE LET r == set(c, st, pairs[1][1], Some(pairs[1][2]))
         IN  extend(r.cache, r.storage, Tail(pairs))

\* ------------------------------------------------------------- the machine
VARIABLES
    cache,      \* the map's StableMap: key -> cell
    storage,    \* the storage host: digest -> bytes
    refmap,     \* a plain reference map fed the same mutations
    reads,      \* storage_read calls this map has issued, per key the host double watches
    negcached   \* keys contains_key found absent, with no mutation of the key since

vars == <<cache, storage, refmap, reads, negcached>>

\* the mock blockchain's trie before any write
EmptyStorage == [d \in {} |-> <<>>]

\* the reference map of a storage: each key's decoded entry
Stored(st) == [k \in Keys |-> load_element(st, Prefix, k).value]

\* a new map over an empty storage; the host double counts the reads of the
\* keys in `watched`
InitWatching(watched) ==
    /\ cache = new_with_hasher(Prefix)
    /\ storage = EmptyStorage
    /\ refmap = Stored(storage)
    /\ reads = [k \in watched |-> 0]
    /\ negcached = {}

Init == InitWatching({})
InitReads == InitWatching(Keys)

\* the number of calls `name` of digest d in a call log
RECURSIVE CountCalls(_, _, _)
CountCalls(io, name, d) ==
    IF io = <<>> THEN 0
    ELSE (IF Head(io) = Call(name, d) THEN 1 ELSE 0) + CountCalls(Tail(io), name, d)

\* one operation returned: the map and the host move on, its reads are counted
Step(r) ==
    /\ r.panic = NoPanic
    /\ cache' = r.cache
    /\ storage' = r.storage
    /\ reads' = [k \in DOMAIN reads |->
                    reads[k] + CountCalls(r.io, "storage_read", lookup_key(Prefix, k))]

Set(k, value) ==
    /\ Step(set(cache, storage, k, value))
    /\ refmap' = [refmap EXCEPT ![k] = value]
    /\ negcached' = negcached \ {k}

Get(k) ==
    /\ Step(get(cache, storage, Prefix, k))
    /\ UNCHANGED <<refmap, negcached>>

GetMut(k, w) ==
    /\ Step(get_mut(cache, storage, Prefix, k, w))
    /\ refmap' = IF is_some(refmap[k]) /\ is_some(w) THEN [refmap EXCEPT ![k] = w] ELSE refmap
    /\ negcached' = negcached \ {k}

Insert(k, v) ==
    /\ Step(insert(cache, storage, Prefix, k, v))
    /\ refmap' = [refmap EXCEPT ![k] = Some(v)]
    /\ negcached' = negcached \ {k}

ContainsKey(k) ==
    LET r == contains_key(cache, storage, Prefix, k)
    IN  /\ Step(r)
        /\ negcached' = (IF r.ret THEN negcached ELSE negcached \cup {k})
        /\ UNCHANGED refmap

Remove(k) ==
    /\ Step(remove(cache, storage, Prefix, k))
    /\ refmap' = [refmap EXCEPT ![k] = None]
    /\ negcached' = negcached \ {k}

\* entry(k), the Entry dropped without a call of its methods
EntryDropped(k) ==
    /\ Step(entry(cache, storage, Prefix, k))
    /\ UNCHANGED <<refmap, negcached>>

\* the iterators extend is fed: two pairs, over one key or two, the later value
\* differing from the earlier
ExtendInputs == {<<<<k1, 1>>, <<k2, MaxVal>>>> : k1 \in Keys, k2 \in Keys}
Extend(pairs) ==
    /\ Step(extend(cache, storage, pairs))
    /\ refmap' = [k \in Keys |->
                    LET hits == {i \in 1..Len(pairs) : pairs[i][1] = k}
                    IN  IF hits = {} THEN refmap[k]
                        ELSE Some(pairs[CHOOSE i \in hits : \A j \in hits : j <= i][2])]
    /\ negcached' = negcached \ {pairs[i][1] : i \in 1..Len(pairs)}

Flush ==
    /\ Step(flush(cache, storage, Prefix))
    /\ UNCHANGED <<refmap, negcached>>

\* The flushed map is given up and a new one is built over the same prefix.
NoneModified(c) == \A k \in DOMAIN c : c[k] = <<>> \/ ~is_modified(c[k][1])
New ==
    /\ NoneModified(cache)
    /\ cache' = new_with_hasher(Prefix)
    /\ reads' = [k \in DOMAIN reads |-> 0]
    /\ negcached' = {}
    /\ UNCHANGED <<storage, refmap>>

\* drop(map), pending values and all, and a new map over the same prefix
Drop ==
    LET r == drop(cache, storage, Prefix)
    IN  /\ storage' = r.storage
        /\ cache' = new_with_hasher(Prefix)
        /\ reads' = [k \in DOMAIN reads |-> 0]
        /\ negcached' = {}
        /\ UNCHANGED refmap

Next ==
    \/ \E k \in Keys, value \in OptVals : Set(k, value)
    \/ \E k \in Keys : Get(k)
    \/ \E k \in Keys, w \in OptVals : GetMut(k, w)
    \/ \E k \in Keys, v \in Vals : Insert(k, v)
    \/ \E k \in Keys : ContainsKey(k)
    \/ \E k \in Keys : Remove(k)
    \/ \E k \in Keys : EntryDropped(k)
    \/ \E pairs \in ExtendInputs : Extend(pairs)
    \/ Flush
    \/ New
    \/ Drop

Spec == Init /\ [][Next]_vars

\* entry's example on its own: a map that is only counted into, read, flushed
\* and dropped; the reference map holds each key's number of occurrences.
Count(ch) ==
    /\ unwrap_or(refmap[ch], 0) < MaxCount
    /\ Step(count_entry(cache, storage, Prefix, ch))
    /\ refmap' = [refmap EXCEPT ![ch] = Some(unwrap_or(refmap[ch], 0) + 1)]
    /\ negcached' = negcached \ {ch}

NextCount ==
    \/ \E ch \in Keys : Count(ch)
    \/ \E k \in Keys : Get(k)
    \/ Flush
    \/ Drop

SpecCount == Init /\ [][NextCount]_vars

\* The map over a storage that holds, under some of its keys' digests, bytes
\* that are no encoding of a value: too few bytes or too many.
CorruptBytes == {<<>>, <<1, 1>>}
KeyContents ==
    {None} \cup {Some(BorshSerialize(v)) : v \in Vals} \cup {Some(b) : b \in CorruptBytes}
StorageOf(f) ==
    [d \in {lookup_key(Prefix, k) : k \in {x \in Keys : f[x] # None}} |->
        f[CHOOSE k \in Keys : lookup_key(Prefix, k) = d][1]]
InitCorrupt ==
    /\ cache = new_with_hasher(Prefix)
    /\ storage \in {StorageOf(f) : f \in [Keys -> KeyContents]}
    /\ refmap = Stored(storage)
    /\ reads = [k \in {} |-> 0]
    /\ negcached = {}

\* what a call left behind and whether it returned
Outcome(r) == [cache |-> r.cache, storage |-> r.storage, io |-> r.io, panic |-> r.panic]
\* the outcomes of the operations that load key k
LoadOutcomes(c, st, k) ==
    {Outcome(get(c, st, Prefix, k)), Outcome(remove(c, st, Prefix, k)),
     Outcome(entry(c, st, Prefix, k))}
    \cup {Outcome(get_mut(c, st, Prefix, k, w)) : w \in OptVals}
    \cup {Outcome(insert(c, st, Prefix, k, v)) : v \in Vals}

\* env::panic: the invocation ends there.  The map is gone with its pending
\* values; where the panic unwinds, the map is dropped on the way out.  The
\* next invocation builds a new map.
Abort ==
    \E k \in Keys : \E r \in LoadOutcomes(cache, storage, k) :
        /\ r.panic # NoPanic
        /\ storage' \in {r.storage, drop(r.cache, r.storage, Prefix).storage}
        /\ cache' = new_with_hasher(Prefix)
        /\ refmap' = Stored(storage')
        /\ reads' = [x \in DOMAIN reads |-> 0]
        /\ negcached' = {}

NextCorrupt ==
    \/ Next
    \/ Abort

SpecCorrupt == InitCorrupt /\ [][NextCorrupt]_vars
\* the same map under a storage host double that counts the reads of every key
SpecReads == InitReads /\ [][Next]_vars

\* ------------------------------------------------------------------ claims
digest(k) == lookup_key(Prefix, k)
initialized(c, k) == k \in DOMAIN c /\ c[k] # <<>>
\* get on a map freshly built over the same prefix and the given storage
FreshGet(st, k) == get(new_with_hasher(Prefix), st, Prefix, k)

\* C1: from every reachable state, insert(k, v) then flush() leaves the storage
\* such that a freshly constructed map over the same prefix returns
\* get(k) == Some(v), for every key k and value v.
C1_RoundTrip ==
    \A k \in Keys, v \in Vals :
        LET a == insert(cache, storage, Prefix, k, v)
            b == flush(a.cache, a.storage, Prefix)
            g == FreshGet(b.storage, k)
        IN  /\ g.panic = NoPanic
            /\ g.ret = Some(v)
            /\ g.io = <<Call("storage_read", digest(k))>>

\* a value has been put in the map and flushed (the slot holds v and is Cached,
\* the host holds v's encoding) and a fresh map's get returns Some(v)
C1_Witness ==
    \E k \in Keys, v \in Vals :
        /\ initialized(cache, k)
        /\ cache[k] = <<new_cached(Some(v))>>
        /\ storage_read(storage, digest(k)) = Some(BorshSerialize(v))
        /\ FreshGet(storage, k).ret = Some(v)

\* C2: in every reachable state contains_key(k) is true exactly when get(k)
\* returns Some (a cached absent or removed value does not count as present).
C2_ContainsIffGet ==
    \A k \in Keys :
        contains_key(cache, storage, Prefix, k).ret
            = is_some(get(cache, storage, Prefix, k).ret)

\* C3: once contains_key(k) has returned false and k was not mutated since, a
\* contains_key(k) call issues no storage_has_key call.
C3_NegativeCacheShortCircuit ==
    \A k \in negcached :
        CountCalls(contains_key(cache, storage, Prefix, k).io,
                   "storage_has_key", digest(k)) = 0

\* C4: insert(k, v) returns the value get(k) would have returned just before:
\* the reference map's value for k (the last value set or inserted, else the
\* stored value, else None); Some(v1) right after insert(k, v1); None right
\* after remove(k).
C4_InsertReturnsPrevious ==
    \A k \in Keys, v \in Vals :
        LET i == insert(cache, storage, Prefix, k, v)
            g == get(cache, storage, Prefix, k)
            i2 == insert(i.cache, i.storage, Prefix, k, (v % MaxVal) + 1)
            r == remove(cache, storage, Prefix, k)
            i3 == insert(r.cache, r.storage, Prefix, k, v)
        IN  /\ i.ret = g.ret
            /\ i.ret = refmap[k]
            /\ (~initialized(cache, k)
                    => i.ret = Stored(storage)[k])
            /\ i2.ret = Some(v)
            /\ i3.ret = None

\* a key that lives only in the storage host (no slot yet): insert loads it and
\* returns the stored value
C4_Witness ==
    \E k \in Keys, v \in Vals :
        /\ ~initialized(cache, k)
        /\ storage_has_key(storage, digest(k))
        /\ is_some(insert(cache, storage, Prefix, k, v).ret)
        /\ insert(cache, storage, Prefix, k, v).ret # Some(v)

\* C5: after insert(k, v), remove(k) returns Some(v), a following get(k)
\* returns None, and after flush() the storage host has no entry under k's
\* digest, also when the insert was flushed before the remove.
C5_RemoveClears ==
    \A k \in Keys, v \in Vals :
        LET i == insert(cache, storage, Prefix, k, v)
            r == remove(i.cache, i.storage, Prefix, k)
            g == get(r.cache, r.storage, Prefix, k)
            f == flush(r.cache, r.storage, Prefix)
            fl == flush(i.cache, i.storage, Prefix)
            r2 == remove(fl.cache, fl.storage, Prefix, k)
            g2 == get(r2.cache, r2.storage, Prefix, k)
            f2 == flush(r2.cache, r2.storage, Prefix)
        IN  /\ r.ret = Some(v)
            /\ g.ret = None
            /\ ~storage_has_key(f.storage, digest(k))
            /\ storage_has_key(fl.storage, digest(k))
            /\ r2.ret = Some(v)
            /\ g2.ret = None
            /\ ~storage_has_key(f2.storage, digest(k))

\* a removed key whose earlier value is still in the storage host: the slot
\* holds None, Modified, and the coming flush removes the entry
C5_Witness ==
    \E k \in Keys :
        /\ initialized(cache, k)
        /\ cache[k] = <<new_modified(None)>>
        /\ storage_has_key(storage, digest(k))
        /\ ~storage_has_key(flush(cache, storage, Prefix).storage, digest(k))

\* C6: the map refines the reference map: in every reachable state get(k) is
\* the reference map's value for every key, and a flush changes no get.
C6_RefinesReferenceMap ==
    \A k \in Keys :
        LET g == get(cache, storage, Prefix, k)
            f == flush(cache, storage, Prefix)
        IN  /\ g.panic = NoPanic
            /\ g.ret = refmap[k]
            /\ get(f.cache, f.storage, Prefix, k).ret = g.ret

\* the reference map holds values the storage host does not: one key with an
\* unflushed value, another with an unflushed removal
C6_Witness ==
    \E k \in Keys, j \in Keys :
        /\ k # j
        /\ is_some(refmap[k])
        /\ refmap[k] # Stored(storage)[k]
        /\ refmap[j] = None
        /\ is_some(Stored(storage)[j])

\* what an operation did: the cache and storage it leaves, the host calls it issued
Effect(r) == [cache |-> r.cache, storage |-> r.storage, io |-> r.io]
\* the effects of every operation but flush, over every input, from this state
NonFlushEffects ==
    {Effect(set(cache, storage, k, value)) : k \in Keys, value \in OptVals}
    \cup {Effect(get(cache, storage, Prefix, k)) : k \in Keys}
    \cup {Effect(get_mut(cache, storage, Prefix, k, w)) : k \in Keys, w \in OptVals}
    \cup {Effect(insert(cache, storage, Prefix, k, v)) : k \in Keys, v \in Vals}
    \cup {Effect(contains_key(cache, storage, Prefix, k)) : k \in Keys}
    \cup {Effect(remove(cache, storage, Prefix, k)) : k \in Keys}
    \cup {Effect(entry(cache, storage, Prefix, k)) : k \in Keys}
    \cup {Effect(extend(cache, storage, pairs)) : pairs \in ExtendInputs}
Writes(io) == {i \in 1..Len(io) : io[i].call \in {"storage_write", "storage_remove"}}

\* C7: no operation other than flush issues storage_write or storage_remove or
\* changes the storage host: every step that changes the storage is a flush
\* (called, or run by the drop of the map), and after set(k, Some(v)) on an absent k the host still has no entry for k.
C7_WritesDeferred ==
    /\ [](\A e \in NonFlushEffects : Writes(e.io) = {} /\ e.storage = storage)
    /\ [](\A k \in Keys, v \in Vals :
            ~storage_has_key(storage, digest(k))
                => ~storage_has_key(set(cache, storage, k, Some(v)).storage, digest(k)))
    /\ [][Flush \/ Drop \/ storage' = storage]_vars

\* a value set and not yet flushed: the slot is Modified, the host has no entry
C7_Witness ==
    \E k \in Keys :
        /\ initialized(cache, k)
        /\ is_modified(cache[k][1])
        /\ is_some(cache[k][1].value)
        /\ ~storage_has_key(storage, digest(k))

\* the effects of the operations that load key k: get, get_mut, insert, remove, entry
LoadingEffects(k) ==
    {Effect(get(cache, storage, Prefix, k)), Effect(remove(cache, storage, Prefix, k)),
     Effect(entry(cache, storage, Prefix, k))}
    \cup {Effect(get_mut(cache, storage, Prefix, k, w)) : w \in OptVals}
    \cup {Effect(insert(cache, storage, Prefix, k, v)) : v \in Vals}
Reads(io) == {i \in 1..Len(io) : io[i].call = "storage_read"}

\* C8: one map issues storage_read at most once per key: an operation on an
\* uninitialized slot reads the key's digest exactly once and leaves the slot
\* initialized, one on an initialized slot reads nothing, flushed or not.
C8_ReadAtMostOnce ==
    /\ \A k \in Keys : k \in DOMAIN reads /\ reads[k] <= 1
    /\ \A k \in Keys : \A e \in LoadingEffects(k) :
        /\ initialized(e.cache, k)
        /\ IF initialized(cache, k)
           THEN e.io = <<>>
           ELSE e.io = <<Call("storage_read", digest(k))>>
    /\ \A e \in NonFlushEffects : Cardinality(Reads(e.io)) <= 1
    /\ Reads(flush(cache, storage, Prefix).io) = {}

\* a key read once, then changed and flushed, then changed again: no operation
\* on it reads the host any more
C8_Witness ==
    \E k \in Keys :
        /\ reads[k] = 1
        /\ initialized(cache, k)
        /\ is_modified(cache[k][1])
        /\ storage_has_key(storage, digest(k))
        /\ Stored(storage)[k] # cache[k][1].value
        /\ \A e \in LoadingEffects(k) : e.io = <<>>

\* C9: from every reachable state, a flush() right after a flush() issues no
\* storage_write and no storage_remove and leaves the storage host as it is.
C9_FlushIdempotent ==
    LET f1 == flush(cache, storage, Prefix)
        f2 == flush(f1.cache, f1.storage, Prefix)
    IN  /\ f2.io = <<>>
        /\ f2.storage = f1.storage
        /\ f2.cache = f1.cache

\* two dirty slots, one holding a value and one a removal: the first flush
\* writes and removes, the second does nothing
C9_Witness ==
    LET f1 == flush(cache, storage, Prefix)
    IN  /\ \E i \in 1..Len(f1.io) : f1.io[i].call = "storage_write"
        /\ \E i \in 1..Len(f1.io) : f1.io[i].call = "storage_remove"
        /\ flush(f1.cache, f1.storage, Prefix).io = <<>>

\* C10: set(k, value) issues no storage-host call, leaves the storage and the
\* other slots as they are and k's slot holding value, Modified, whatever the
\* slot held; the next flush then persists it: one write of the encoded value
\* if Some, one remove if None.
C10_SetMarksModified ==
    \A k \in Keys, value \in OptVals :
        LET r == set(cache, storage, k, value)
            f == flush(r.cache, r.storage, Prefix)
        IN  /\ r.io = <<>>
            /\ r.storage = storage
            /\ r.cache[k] = <<new_modified(value)>>
            /\ \A j \in Keys \ {k} :
                /\ j \in DOMAIN r.cache <=> j \in DOMAIN cache
                /\ j \in DOMAIN cache => r.cache[j] = cache[j]
            /\ IF is_some(value)
               THEN /\ CountCalls(f.io, "storage_write", digest(k)) = 1
                    /\ CountCalls(f.io, "storage_remove", digest(k)) = 0
                    /\ storage_read(f.storage, digest(k)) = Some(BorshSerialize(value[1]))
               ELSE /\ CountCalls(f.io, "storage_remove", digest(k)) = 1
                    /\ CountCalls(f.io, "storage_write", digest(k)) = 0
                    /\ storage_read(f.storage, digest(k)) = None

\* a slot a flush has left Cached with a stored value: set overwrites it, to
\* another value or to None, and it is Modified again
C10_Witness ==
    \E k \in Keys, v \in Vals :
        /\ initialized(cache, k)
        /\ cache[k] = <<new_cached(Some(v))>>
        /\ storage_read(storage, digest(k)) = Some(BorshSerialize(v))
        /\ set(cache, storage, k, None).cache[k] = <<new_modified(None)>>

\* C11: every get_mut(k) leaves k's slot Modified when it returns, whether the
\* value is present or absent and whether or not the caller then stores through
\* the alias; the next flush issues exactly one storage operation for k: a
\* write if the value is present, a remove if it is absent.
C11_GetMutMarksModified ==
    \A k \in Keys, w \in OptVals :
        LET r == get_mut(cache, storage, Prefix, k, w)
            f == flush(r.cache, r.storage, Prefix)
        IN  /\ r.panic = NoPanic
            /\ initialized(r.cache, k)
            /\ is_modified(r.cache[k][1])
            /\ r.ret = get(cache, storage, Prefix, k).ret
            /\ IF is_some(r.cache[k][1].value)
               THEN /\ CountCalls(f.io, "storage_write", digest(k)) = 1
                    /\ CountCalls(f.io, "storage_remove", digest(k)) = 0
               ELSE /\ CountCalls(f.io, "storage_remove", digest(k)) = 1
                    /\ CountCalls(f.io, "storage_write", digest(k)) = 0

\* one clean slot holding a stored value and one clean slot holding None: a
\* get_mut whose caller stores nothing leaves each Modified, and the flush
\* after it rewrites the one and removes the other
C11_Witness ==
    \E k \in Keys, j \in Keys, v \in Vals :
        /\ initialized(cache, k) /\ cache[k] = <<new_cached(Some(v))>>
        /\ initialized(cache, j) /\ cache[j] = <<new_cached(None)>>
        /\ get_mut(cache, storage, Prefix, k, None).cache[k] = <<new_modified(Some(v))>>
        /\ get_mut(cache, storage, Prefix, j, None).cache[j] = <<new_modified(None)>>
        /\ flush(cache, storage, Prefix).io = <<>>

\* C12: dropping a map flushes it: from every reachable state, after
\* set(k, Some(v)) and the drop of the map with no flush() call, a new map over
\* the same prefix reads Some(v) for k, and for every other key the value the
\* dropped map held for it.
C12_DropFlushes ==
    \A k \in Keys, v \in Vals :
        LET s == set(cache, storage, k, Some(v))
            d == drop(s.cache, s.storage, Prefix)
            g == FreshGet(d.storage, k)
        IN  /\ g.panic = NoPanic
            /\ g.ret = Some(v)
            /\ storage_read(d.storage, digest(k)) = Some(BorshSerialize(v))
            /\ \A j \in Keys \ {k} :
                    FreshGet(d.storage, j).ret = get(cache, storage, Prefix, j).ret

\* a value set and never flushed (Modified slot, no entry in the host): the
\* drop of the map puts it in the host and a new map reads it
C12_Witness ==
    \E k \in Keys, v \in Vals :
        /\ initialized(cache, k)
        /\ cache[k] = <<new_modified(Some(v))>>
        /\ ~storage_has_key(storage, digest(k))
        /\ FreshGet(storage, k).ret = None
        /\ FreshGet(drop(cache, storage, Prefix).storage, k).ret = Some(v)

\* the key sequence of entry's example, and the number of times a key occurs in it
ExampleKeys == <<7, 2, 4, 7, 4, 1, 7>>
Occurrences(chs, k) == Cardinality({i \in 1..Len(chs) : chs[i] = k})

\* C13: from an empty map over an empty storage, after
\* `*entry(key).or_insert(0) += 1` for each element of a key sequence, get(k) is
\* Some(the number of occurrences of k) for every k that occurs and None for
\* every k that does not, whether or not the map was read, flushed or dropped
\* in between; for [7, 2, 4, 7, 4, 1, 7]: 4 -> 2, 7 -> 3, 1 -> 1, get(8) = None.
C13_EntryCounter ==
    /\ \A k \in Keys :
        LET g == get(cache, storage, Prefix, k)
        IN  /\ g.panic = NoPanic
            /\ g.ret = refmap[k]
            /\ g.ret # Some(0)
    /\ LET r == count_loop(new_with_hasher(Prefix), EmptyStorage, Prefix, ExampleKeys)
       IN  \A k \in 1..8 :
            get(r.cache, r.storage, Prefix, k).ret
                = (IF Occurrences(ExampleKeys, k) = 0 THEN None
                   ELSE Some(Occurrences(ExampleKeys, k)))

\* one key counted MaxCount times with nothing flushed, another never counted:
\* get gives the count of the one and None for the other
C13_Witness ==
    \E k \in Keys, j \in Keys :
        /\ refmap[k] = Some(MaxCount)
        /\ cache[k] = <<new_modified(Some(MaxCount))>>
        /\ ~storage_has_key(storage, digest(k))
        /\ refmap[j] = None
        /\ get(cache, storage, Prefix, j).ret = None

\* the manual sequence entry(k).or_insert(d) stands for:
\*   if !map.contains_key(&k) { map.insert(k, d); }  map.get(&k)
insert_if_absent_then_get(c, st, prefix, k, d) ==
    LET a == contains_key(c, st, prefix, k)
        b == IF a.ret THEN a ELSE insert(a.cache, a.storage, prefix, k, d)
    IN  get(b.cache, b.storage, prefix, k)

\* C14: on a key with no value (get(k) is None: no entry in cache and storage,
\* or an absent value in the cache), entry(k).or_insert(d) leaves the slot
\* holding Some(d), Modified, and the same cache, the same value and the same
\* storage after flush as `if !contains_key(k) { insert(k, d) }` then get(k);
\* on a key with a value, or_insert returns that value and keeps it in the slot.
C14_OrInsertAsManual ==
    \A k \in Keys, d \in Vals :
        LET g == get(cache, storage, Prefix, k)
            o == or_insert(cache, storage, Prefix, k, d)
            m == insert_if_absent_then_get(cache, storage, Prefix, k, d)
        IN  IF g.ret = None
            THEN /\ o.cache[k] = <<new_modified(Some(d))>>
                 /\ o.ret = d
                 /\ m.ret = Some(o.ret)
                 /\ m.cache = o.cache
                 /\ flush(m.cache, m.storage, Prefix).storage
                        = flush(o.cache, o.storage, Prefix).storage
            ELSE /\ Some(o.ret) = g.ret
                 /\ o.cache[k][1].value = g.ret

\* the prefixes of other collections in the same storage: a proper byte-prefix
\* of this map's prefix, an extension of it, and one of the same length
OtherPrefixes == {<<>>, Prefix \o <<1>>, <<110>>}
AllPrefixes == OtherPrefixes \cup {Prefix}
\* keys of a collection keyed by (u8, u8): the first field is this map's
\* prefix byte or the byte OtherPrefixes extends it by
PairKeys == {Prefix[1], 1} \X Keys
\* the digests a map over prefix p reads, keyed by u8 or by (u8, u8)
KeyDigests(p) ==
    {lookup_key(p, k) : k \in Keys} \cup {lookup_key_pair(p, pk) : pk \in PairKeys}
ProperPrefix(p, q) == Len(p) < Len(q) /\ SubSeq(q, 1, Len(p)) = p
Overlap(p, q) == ProperPrefix(p, q) \/ ProperPrefix(q, p)

\* C15: any two distinct (prefix, key) pairs have distinct digests, also when
\* one prefix is a byte-prefix of the other and the key encodings differ in
\* length; so a flush of this map never writes or removes an entry that a map
\* with a different prefix reads for any of its keys.
C15_NoCollision ==
    /\ \A p \in AllPrefixes, q \in AllPrefixes :
        /\ \A k \in Keys, j \in Keys :
                <<p, k>> # <<q, j>> => lookup_key(p, k) # lookup_key(q, j)
        /\ \A k \in PairKeys, j \in PairKeys :
                <<p, k>> # <<q, j>> => lookup_key_pair(p, k) # lookup_key_pair(q, j)
        /\ \A k \in Keys, j \in PairKeys : lookup_key(p, k) # lookup_key_pair(q, j)
    /\ LET f == flush(cache, storage, Prefix)
       IN  \A i \in Writes(f.io), q \in OtherPrefixes : f.io[i].key \notin KeyDigests(q)

\* C15, amended: two distinct (prefix, key) pairs have distinct digests unless
\* one prefix is a proper byte-prefix of the other and the key encodings differ
\* in length; a flush of this map never writes or removes an entry that a map
\* reads whose prefix differs from this map's and neither is a proper
\* byte-prefix of the other, or whose keys encode to as many bytes as this
\* map's.
C15_NoCollisionWithoutOverlap ==
    /\ \A p \in AllPrefixes, q \in AllPrefixes :
        /\ \A k \in Keys, j \in Keys :
                <<p, k>> # <<q, j>> => lookup_key(p, k) # lookup_key(q, j)
        /\ \A k \in PairKeys, j \in PairKeys :
                <<p, k>> # <<q, j>> => lookup_key_pair(p, k) # lookup_key_pair(q, j)
        /\ \A k \in Keys, j \in PairKeys :
                ~Overlap(p, q) => lookup_key(p, k) # lookup_key_pair(q, j)
    /\ LET f == flush(cache, storage, Prefix)
       IN  \A i \in Writes(f.io), q \in OtherPrefixes :
            /\ \A j \in Keys : f.io[i].key # lookup_key(q, j)
            /\ ~Overlap(Prefix, q) => f.io[i].key \notin KeyDigests(q)

\* a flush that writes one key and removes another, each under a digest that
\* a map over an overlapping prefix keyed by (u8, u8) reads and no map keyed
\* like this one does
C15_Witness ==
    LET f == flush(cache, storage, Prefix)
    IN  /\ \E i \in Writes(f.io) : f.io[i].call = "storage_write"
        /\ \E i \in Writes(f.io) : f.io[i].call = "storage_remove"
        /\ \A i \in Writes(f.io) :
            /\ \E q \in OtherPrefixes : Overlap(Prefix, q) /\ f.io[i].key \in KeyDigests(q)
            /\ \A q \in OtherPrefixes, j \in Keys : f.io[i].key # lookup_key(q, j)

\* the keys whose slot is initialized and Modified
ModifiedKeys(c) == {k \in DOMAIN c : c[k] # <<>> /\ is_modified(c[k][1])}

\* C16: flush() issues exactly one storage operation per slot that is Modified
\* when it is called (storage_write of the encoded value under digest(k) if the
\* value is present, storage_remove of digest(k) if it is absent) and none for
\* a Cached or uninitialized slot or a key without a slot; it keeps every
\* cached value as it is and leaves every initialized slot Cached.
C16_FlushPerModifiedSlot ==
    LET f == flush(cache, storage, Prefix)
    IN  /\ f.panic = NoPanic
        /\ Len(f.io) = Cardinality(ModifiedKeys(cache))
        /\ Writes(f.io) = 1..Len(f.io)
        /\ \A k \in Keys :
            LET w == CountCalls(f.io, "storage_write", digest(k))
                r == CountCalls(f.io, "storage_remove", digest(k))
            IN  IF k \in ModifiedKeys(cache)
                THEN IF is_some(cache[k][1].value)
                     THEN /\ w = 1 /\ r = 0
                          /\ storage_read(f.storage, digest(k))
                                = Some(BorshSerialize(cache[k][1].value[1]))
                     ELSE /\ w = 0 /\ r = 1
                          /\ storage_read(f.storage, digest(k)) = None
                ELSE /\ w = 0 /\ r = 0
                     /\ storage_read(f.storage, digest(k)) = storage_read(storage, digest(k))
        /\ DOMAIN f.cache = DOMAIN cache
        /\ \A k \in DOMAIN cache :
            IF cache[k] = <<>> THEN f.cache[k] = <<>>
            ELSE f.cache[k] = <<new_cached(cache[k][1].value)>>

\* one Modified slot and one Cached slot, each holding a value, the Cached
\* one's in the host too: flush issues the one write of the Modified slot
C16_Witness ==
    \E k \in Keys, j \in Keys :
        /\ ModifiedKeys(cache) = {k}
        /\ is_some(cache[k][1].value)
        /\ initialized(cache, j) /\ ~is_modified(cache[j][1]) /\ is_some(cache[j][1].value)
        /\ storage_has_key(storage, digest(j))
        /\ flush(cache, storage, Prefix).io = <<Call("storage_write", digest(k))>>

\* C17: in every reachable state of a single map, every slot that is
\* initialized and Cached holds what the storage host holds under digest(k):
\* the decoded value if there is an entry, None if there is none; and right
\* after a flush the host agrees with get(k) for every key with a slot.
C17_CachedMirrorsStorage ==
    /\ \A k \in Keys :
        (initialized(cache, k) /\ ~is_modified(cache[k][1]))
            => /\ load_element(storage, Prefix, k).panic = NoPanic
               /\ cache[k][1].value = load_element(storage, Prefix, k).value
               /\ is_some(cache[k][1].value) <=> storage_has_key(storage, digest(k))
    /\ LET f == flush(cache, storage, Prefix)
       IN  \A k \in DOMAIN f.cache :
            /\ get(f.cache, f.storage, Prefix, k).io = <<>>
            /\ get(f.cache, f.storage, Prefix, k).ret
                    = load_element(f.storage, Prefix, k).value

\* a Cached slot holding the stored value, a Cached slot holding None for a
\* key the host has no entry of
C17_Witness ==
    \E k \in Keys, j \in Keys, v \in Vals :
        /\ initialized(cache, k) /\ cache[k] = <<new_cached(Some(v))>>
        /\ storage_read(storage, digest(k)) = Some(BorshSerialize(v))
        /\ initialized(cache, j) /\ cache[j] = <<new_cached(None)>>
        /\ ~storage_has_key(storage, digest(j))

\* the state of k's slot in cache c
UNINITIALIZED == "uninitialized"
SlotState(c, k) == IF initialized(c, k) THEN c[k][1].state ELSE UNINITIALIZED
\* the changes of a slot's state the per-slot state machine names, and the one
\* more that set, get_mut, insert and remove make on a key not yet loaded
NamedChanges == {<<UNINITIALIZED, CACHED>>, <<CACHED, MODIFIED>>, <<MODIFIED, CACHED>>}
DirectlyModified == <<UNINITIALIZED, MODIFIED>>
Change(c1, c2, k) == <<SlotState(c1, k), SlotState(c2, k)>>
Stays(c1, c2, k) == SlotState(c1, k) = SlotState(c2, k)

\* C18: over the lifetime of a map each step changes the state of a slot only
\* along uninitialized -> Cached, Cached -> Modified or Modified -> Cached; a
\* Modified -> Cached change is made only by flush; no slot goes back to
\* uninitialized.
C18_SlotStateMachine ==
    [][New \/ Drop \/
       \A k \in Keys :
          /\ Stays(cache, cache', k) \/ Change(cache, cache', k) \in NamedChanges
          /\ Change(cache, cache', k) = <<MODIFIED, CACHED>> => Flush]_vars

\* C18, amended: over the lifetime of a map each operation changes the state
\* of a slot only along uninitialized -> Cached, uninitialized -> Modified,
\* Cached -> Modified or Modified -> Cached; a Modified -> Cached change is
\* made only by flush, which makes no other change; no slot goes back to
\* uninitialized.
C18_SlotStateMachineWithDirectModified ==
    /\ [](\A k \in Keys :
            /\ \A e \in NonFlushEffects
                        \cup {Effect(or_insert(cache, storage, Prefix, j, d)) : j \in Keys, d \in Vals} :
                    \/ Stays(cache, e.cache, k)
                    \/ Change(cache, e.cache, k) \in
                            (NamedChanges \cup {DirectlyModified}) \ {<<MODIFIED, CACHED>>}
            /\ LET f == flush(cache, storage, Prefix)
               IN  \/ Stays(cache, f.cache, k) /\ SlotState(cache, k) # MODIFIED
                   \/ Change(cache, f.cache, k) = <<MODIFIED, CACHED>>)
    /\ [][New \/ Drop \/
          \A k \in Keys :
            /\ \/ Stays(cache, cache', k)
               \/ Change(cache, cache', k) \in NamedChanges \cup {DirectlyModified}
            /\ Change(cache, cache', k) = <<MODIFIED, CACHED>> => Flush]_vars

\* a key with no slot, which set makes Modified and get makes Cached, next to
\* a Modified slot, which flush makes Cached
C18_Witness ==
    \E k \in Keys, j \in Keys, v \in Vals :
        /\ SlotState(cache, k) = UNINITIALIZED
        /\ Change(cache, set(cache, storage, k, Some(v)).cache, k) = DirectlyModified
        /\ Change(cache, get(cache, storage, Prefix, k).cache, k) = <<UNINITIALIZED, CACHED>>
        /\ SlotState(cache, j) = MODIFIED
        /\ Change(cache, flush(cache, storage, Prefix).cache, j) = <<MODIFIED, CACHED>>

\* the effects of the read-only operations on map c over storage st: get,
\* contains_key, and entry with the Entry dropped unused
ReadOnlyEffects(c, st) ==
    {Effect(get(c, st, Prefix, k)) : k \in Keys}
    \cup {Effect(contains_key(c, st, Prefix, k)) : k \in Keys}
    \cup {Effect(entry(c, st, Prefix, k)) : k \in Keys}

\* C19: get(k), contains_key(k) and an entry(k) dropped unused never move a
\* slot to Modified (nor a Modified slot away from it) and leave the storage
\* alone; after any two such calls on a map with no Modified slot, flush()
\* issues no storage_write and no storage_remove.
C19_ReadsDoNotDirty ==
    \A e1 \in ReadOnlyEffects(cache, storage) :
        /\ ModifiedKeys(e1.cache) = ModifiedKeys(cache)
        /\ e1.storage = storage
        /\ Writes(e1.io) = {}
        /\ \A e2 \in ReadOnlyEffects(e1.cache, e1.storage) :
            /\ ModifiedKeys(e2.cache) = ModifiedKeys(cache)
            /\ e2.storage = storage
            /\ ModifiedKeys(cache) = {}
                    => flush(e2.cache, e2.storage, Prefix).io = <<>>

\* a map with no Modified slot over a host that holds one key not loaded yet
\* and lacks the other: entry loads the one, contains_key caches the other's
\* absence, and the flush after them does nothing
C19_Witness ==
    \E k \in Keys, j \in Keys :
        /\ ModifiedKeys(cache) = {}
        /\ ~initialized(cache, k) /\ storage_has_key(storage, digest(k))
        /\ ~initialized(cache, j) /\ ~storage_has_key(storage, digest(j))
        /\ LET e1 == entry(cache, storage, Prefix, k)
               e2 == contains_key(e1.cache, e1.storage, Prefix, j)
           IN  /\ e1.ret = "Occupied"
               /\ SlotState(e2.cache, k) = CACHED
               /\ SlotState(e2.cache, j) = CACHED
               /\ flush(e2.cache, e2.storage, Prefix).io = <<>>

\* the bytes under k's digest are there and decode to no value
Undecodable(st, k) ==
    /\ storage_has_key(st, digest(k))
    /\ try_from_slice(storage_read(st, digest(k))[1]) = None

\* C20: when the bytes stored under digest(k) do not decode, the first get,
\* get_mut, insert, remove or entry on k (k's slot not initialized) aborts with
\* "Cannot deserialize element" after the one storage_read, returning nothing;
\* k's slot is left uninitialized, holding no value, the other slots and the
\* storage are as they were and no storage_write or storage_remove is issued.
C20_DecodeFailureAborts ==
    \A k \in Keys :
        (Undecodable(storage, k) /\ ~initialized(cache, k))
            => \A r \in LoadOutcomes(cache, storage, k) :
                /\ r.panic = ERR_ELEMENT_DESERIALIZATION
                /\ r.io = <<Call("storage_read", digest(k))>>
                /\ Writes(r.io) = {}
                /\ r.storage = storage
                /\ ~initialized(r.cache, k)
                /\ \A j \in Keys \ {k} :
                    /\ j \in DOMAIN r.cache <=> j \in DOMAIN cache
                    /\ j \in DOMAIN cache => r.cache[j] = cache[j]

\* undecodable bytes under a key not loaded yet, next to a key with a pending
\* value: get on the first aborts
C20_Witness ==
    \E k \in Keys, j \in Keys :
        /\ Undecodable(storage, k)
        /\ ~initialized(cache, k)
        /\ SlotState(cache, j) = MODIFIED
        /\ get(cache, storage, Prefix, k).panic = ERR_ELEMENT_DESERIALIZATION

====
